---- MODULE Spec2Model ----
(***************************************************************************)
(* Index-Hash-Table: a paged slot allocator (index_table over             *)
(* index_bucket pages).  Two variants of the header are modelled:         *)
(*   - src/unnamed/part_000, the variant that tracks bucket_hiindex and   *)
(*     pushes freed bucket indices on the stack `empty` (plain names);    *)
(*   - src/index_table.hpp, the older variant (names ending in _hpp).     *)
(*                                                                         *)
(* T is instantiated with int: T() is 0 and stored values are 1..MaxVal.  *)
(* A size_t value is represented by the integer congruent to it modulo    *)
(* 2^64 of least magnitude, so 0 - 1 is represented by -1; the unsigned   *)
(* comparisons of the source are translated on that representation        *)
(* (ULess, UIsZero).  Offsets are 0-based as in the source; items[o] of   *)
(* the source is items[o + 1] of the model.                               *)
(***************************************************************************)
EXTENDS Integers, Sequences, FiniteSets, TLC

\* Bounds of the model.
MaxS == 3
MaxCache == 3
MaxVal == 2
MaxPages == 3
MaxSlots == 6
MaxWrap == 1

\* T() for T = int.
EmptyT == 0

Values == 1..MaxVal
AnyValues == 0..MaxVal

VARIABLES
    S,               \* template parameter S: slots per bucket
    cache,           \* constructor argument
    buckets,         \* index_table::buckets (vector order)
    empty,           \* index_table::empty (stack, top is the last element)
    bucket_hiindex,  \* index_table::bucket_hiindex
    hist             \* shape of the call history since construction

vars == <<S, cache, buckets, empty, bucket_hiindex, hist>>

----------------------------------------------------------------------------
\* size_t comparisons on the signed representation.
ULess(a, b) == a >= 0 /\ a < b
UIsZero(a) == a = 0

\* std::distance(begin, std::find_if(begin, end, == v)): 0 .. Len(seq).
Find(seq, v) ==
    IF \E i \in 1..Len(seq) : seq[i] = v
    THEN (CHOOSE i \in 1..Len(seq) : seq[i] = v /\ \A j \in 1..(i - 1) : seq[j] # v) - 1
    ELSE Len(seq)

\* vector::erase of the element at position i (1-based).
Erase(seq, i) == SubSeq(seq, 1, i - 1) \o SubSeq(seq, i + 1, Len(seq))

----------------------------------------------------------------------------
\* index_bucket (src/unnamed/part_000)

index_bucket(bindex) ==
    [items |-> [i \in 1..S |-> EmptyT], filled |-> 0, bucket_index |-> bindex]

\* get_index() that scans from the last slot.
get_index_last(b) ==
    IF \E o \in 1..S : b.items[o] = EmptyT
    THEN (CHOOSE o \in 1..S :
            b.items[o] = EmptyT /\ \A q \in (o + 1)..S : b.items[q] # EmptyT) - 1
    ELSE -1

get_index(b) ==
    LET index == Find(b.items, EmptyT)
    IN  IF index # S THEN index ELSE -1

item(b, v) ==
    LET index == Find(b.items, v)
    IN  IF index # S THEN index ELSE -1

index_bucket_insert(b, v) ==
    LET index == get_index(b)
    IN  [b   |-> IF index >= 0 /\ index < S
                 THEN [b EXCEPT !.items[index + 1] = v, !.filled = @ + 1]
                 ELSE b,
         ret |-> index]

\* `if (index >= 0)` always holds.  Every call site passes a value the bucket
\* holds, so index < S there; the out-of-bounds store of index = S is not
\* reached by the table and is represented by the decrement alone.
index_bucket_remove(b, v) ==
    LET index == Find(b.items, v)
    IN  [b   |-> IF index < S
                 THEN [b EXCEPT !.items[index + 1] = EmptyT, !.filled = @ - 1]
                 ELSE [b EXCEPT !.filled = @ - 1],
         ret |-> IF index # S THEN index ELSE -1]

----------------------------------------------------------------------------
\* index_table (src/unnamed/part_000), as functions of the table value
\* t = [buckets, empty, bucket_hiindex].

Tbl == [buckets |-> buckets, empty |-> empty, bucket_hiindex |-> bucket_hiindex]

\* bucket() that forgets to advance bucket_hiindex.
bucket_stale_hiindex(t) ==
    LET bindex == IF Len(t.empty) > 0 THEN t.empty[Len(t.empty)]
                  ELSE IF Len(t.buckets) > 0 THEN t.bucket_hiindex + 1
                  ELSE 0
    IN  [buckets        |-> Append(t.buckets, index_bucket(bindex)),
         empty          |-> IF Len(t.empty) > 0
                            THEN SubSeq(t.empty, 1, Len(t.empty) - 1)
                            ELSE t.empty,
         bucket_hiindex |-> t.bucket_hiindex]

\* bucket() that reads empty.top() without empty.pop().
bucket_nopop(t) ==
    LET bindex == IF Len(t.empty) > 0 THEN t.empty[Len(t.empty)]
                  ELSE IF Len(t.buckets) > 0 THEN t.bucket_hiindex + 1
                  ELSE 0
    IN  [buckets        |-> Append(t.buckets, index_bucket(bindex)),
         empty          |-> t.empty,
         bucket_hiindex |-> IF Len(t.empty) = 0 /\ Len(t.buckets) > 0
                            THEN bindex
                            ELSE t.bucket_hiindex]

\* bucket() that takes the oldest freed index (bottom of the stack).
bucket_fifo(t) ==
    LET bindex == IF Len(t.empty) > 0 THEN t.empty[1]
                  ELSE IF Len(t.buckets) > 0 THEN t.bucket_hiindex + 1
                  ELSE 0
    IN  [buckets        |-> Append(t.buckets, index_bucket(bindex)),
         empty          |-> IF Len(t.empty) > 0 THEN Tail(t.empty) ELSE t.empty,
         bucket_hiindex |-> IF Len(t.empty) = 0 /\ Len(t.buckets) > 0
                            THEN bindex
                            ELSE t.bucket_hiindex]

bucket(t) ==
    LET bindex == IF Len(t.empty) > 0 THEN t.empty[Len(t.empty)]
                  ELSE IF Len(t.buckets) > 0 THEN t.bucket_hiindex + 1
                  ELSE 0
    IN  [buckets        |-> Append(t.buckets, index_bucket(bindex)),
         empty          |-> IF Len(t.empty) > 0
                            THEN SubSeq(t.empty, 1, Len(t.empty) - 1)
                            ELSE t.empty,
         bucket_hiindex |-> IF Len(t.empty) = 0 /\ Len(t.buckets) > 0
                            THEN bindex
                            ELSE t.bucket_hiindex]

\* first() that tests filled <= S.
first_le(bs) ==
    IF \E i \in 1..Len(bs) : bs[i].filled >= 0 /\ bs[i].filled <= S
    THEN CHOOSE i \in 1..Len(bs) :
            /\ bs[i].filled >= 0 /\ bs[i].filled <= S
            /\ \A j \in 1..(i - 1) : ~(bs[j].filled >= 0 /\ bs[j].filled <= S)
    ELSE 0

\* Position (1-based) of the first bucket with filled < S; 0 stands for nullptr.
first(bs) ==
    IF \E i \in 1..Len(bs) : ULess(bs[i].filled, S)
    THEN CHOOSE i \in 1..Len(bs) :
            ULess(bs[i].filled, S) /\ \A j \in 1..(i - 1) : ~ULess(bs[j].filled, S)
    ELSE 0

RECURSIVE index_table_loop(_, _)
index_table_loop(t, n) == IF n <= 0 THEN t ELSE index_table_loop(bucket(t), n - 1)

index_table(c) ==
    index_table_loop([buckets |-> <<>>, empty |-> <<>>, bucket_hiindex |-> 0], c)

RECURSIVE SumFilled(_)
SumFilled(bs) == IF bs = <<>> THEN 0 ELSE bs[1].filled + SumFilled(Tail(bs))

\* std::accumulate starts from the int 0: each partial sum is narrowed to int
\* and widened again, which the signed representation of filled follows.
count(t) == SumFilled(t.buckets)

\* insert() that adds bucket_index without scaling it by S.
insert_unscaled(t, v) ==
    LET f  == first(t.buckets)
        t1 == IF f = 0 THEN bucket(t) ELSE t
        i  == IF f = 0 THEN Len(t1.buckets) ELSE f
        r  == index_bucket_insert(t1.buckets[i], v)
    IN  [t   |-> [t1 EXCEPT !.buckets[i] = r.b],
         ret |-> r.ret + r.b.bucket_index]

insert(t, v) ==
    LET f  == first(t.buckets)
        t1 == IF f = 0 THEN bucket(t) ELSE t
        i  == IF f = 0 THEN Len(t1.buckets) ELSE f
        r  == index_bucket_insert(t1.buckets[i], v)
    IN  [t   |-> [t1 EXCEPT !.buckets[i] = r.b],
         ret |-> r.ret + (r.b.bucket_index * S)]

\* Position of the first bucket holding v, 0 for buckets.end().
FindItem(bs, v) ==
    IF \E i \in 1..Len(bs) : item(bs[i], v) # -1
    THEN CHOOSE i \in 1..Len(bs) :
            item(bs[i], v) # -1 /\ \A j \in 1..(i - 1) : item(bs[j], v) = -1
    ELSE 0

\* index / S of the source, with index converted to size_t: a negative index
\* becomes at least 2^64 - 2^31, whose quotient by S exceeds every int32
\* bucket_index; -1 stands for that quotient.
Quot(index) == IF index < 0 THEN -1 ELSE index \div S

\* The search of removei / geti comparing bucket_index with index % S.
FindIndex_mod(bs, index) ==
    IF \E i \in 1..Len(bs) : bs[i].bucket_index = index % S
    THEN CHOOSE i \in 1..Len(bs) :
            bs[i].bucket_index = index % S
            /\ \A j \in 1..(i - 1) : bs[j].bucket_index # index % S
    ELSE 0

\* Position of the first bucket with bucket_index == index / S, 0 for end().
FindIndex(bs, index) ==
    IF \E i \in 1..Len(bs) : bs[i].bucket_index = Quot(index)
    THEN CHOOSE i \in 1..Len(bs) :
            bs[i].bucket_index = Quot(index)
            /\ \A j \in 1..(i - 1) : bs[j].bucket_index # Quot(index)
    ELSE 0

\* Deletion that does not push the bucket index on `empty`.
DeleteIfEmpty_nopush(t, i, b) ==
    IF UIsZero(b.filled)
    THEN [t EXCEPT !.buckets = Erase(t.buckets, i)]
    ELSE [t EXCEPT !.buckets[i] = b]

\* erase + empty.push + delete of the bucket at position i when it has no items.
DeleteIfEmpty(t, i, b) ==
    IF UIsZero(b.filled)
    THEN [t EXCEPT !.buckets = Erase(t.buckets, i),
                   !.empty = Append(t.empty, b.bucket_index)]
    ELSE [t EXCEPT !.buckets[i] = b]

removet(t, v) ==
    LET i == FindItem(t.buckets, v)
    IN  IF i = 0 THEN [t |-> t, ret |-> -1, deleted |-> <<>>]
        ELSE LET r == index_bucket_remove(t.buckets[i], v)
             IN  [t       |-> DeleteIfEmpty(t, i, r.b),
                  ret     |-> r.ret + (r.b.bucket_index * S),
                  deleted |-> IF UIsZero(r.b.filled) THEN <<r.b>> ELSE <<>>]

removei(t, index) ==
    LET i == FindIndex(t.buckets, index)
    IN  IF i = 0 THEN [t |-> t, ret |-> EmptyT, deleted |-> <<>>]
        ELSE LET it == t.buckets[i].items[(index % S) + 1]
                 r  == index_bucket_remove(t.buckets[i], it)
             IN  [t       |-> DeleteIfEmpty(t, i, r.b),
                  ret     |-> it,
                  deleted |-> IF UIsZero(r.b.filled) THEN <<r.b>> ELSE <<>>]

gett(t, v) ==
    LET i == FindItem(t.buckets, v)
    IN  IF i = 0 THEN -1
        ELSE item(t.buckets[i], v) + (t.buckets[i].bucket_index * S)

geti(t, index) ==
    LET i == FindIndex(t.buckets, index)
    IN  IF i = 0 THEN EmptyT ELSE t.buckets[i].items[(index % S) + 1]

----------------------------------------------------------------------------
\* index_bucket and index_table of src/index_table.hpp.  The bucket's insert
\* and remove add bucket_index * S themselves, the table has no
\* bucket_hiindex (the field is carried unchanged), and nothing pushes on
\* `empty`.

index_bucket_insert_hpp(b, v) ==
    LET index == get_index(b)
    IN  [b   |-> IF index >= 0 /\ index < S
                 THEN [b EXCEPT !.items[index + 1] = v, !.filled = @ + 1]
                 ELSE b,
         ret |-> index + (b.bucket_index * S)]

index_bucket_remove_hpp(b, v) ==
    LET index == Find(b.items, v)
    IN  [b   |-> IF index < S
                 THEN [b EXCEPT !.items[index + 1] = EmptyT, !.filled = @ - 1]
                 ELSE [b EXCEPT !.filled = @ - 1],
         ret |-> IF index # S THEN index + (b.bucket_index * S) ELSE -1]

\* find_if's predicate compares bucket_index with bindex, which is -1 when the
\* scan starts: FirstAbove is the 0-based position the scan stops at.
FirstAbove(bs, bindex) ==
    IF \E i \in 1..Len(bs) : bs[i].bucket_index > bindex
    THEN (CHOOSE i \in 1..Len(bs) :
            bs[i].bucket_index > bindex
            /\ \A j \in 1..(i - 1) : ~(bs[j].bucket_index > bindex)) - 1
    ELSE Len(bs)

bucket_hpp(t) ==
    LET bindex == IF Len(t.empty) > 0 THEN t.empty[Len(t.empty)]
                  ELSE IF Len(t.buckets) > 0 THEN FirstAbove(t.buckets, -1) + 1
                  ELSE 0
    IN  [t EXCEPT !.buckets = Append(t.buckets, index_bucket(bindex)),
                  !.empty = IF Len(t.empty) > 0
                            THEN SubSeq(t.empty, 1, Len(t.empty) - 1)
                            ELSE t.empty]

RECURSIVE index_table_loop_hpp(_, _)
index_table_loop_hpp(t, n) ==
    IF n <= 0 THEN t ELSE index_table_loop_hpp(bucket_hpp(t), n - 1)

index_table_hpp(c) ==
    index_table_loop_hpp([buckets |-> <<>>, empty |-> <<>>, bucket_hiindex |-> 0], c)

insert_hpp(t, v) ==
    LET f  == first(t.buckets)
        t1 == IF f = 0 THEN bucket_hpp(t) ELSE t
        i  == IF f = 0 THEN Len(t1.buckets) ELSE f
        r  == index_bucket_insert_hpp(t1.buckets[i], v)
    IN  [t |-> [t1 EXCEPT !.buckets[i] = r.b], ret |-> r.ret]

\* erase + delete of the bucket at position i when it has no items.
DeleteIfEmpty_hpp(t, i, b) ==
    IF UIsZero(b.filled)
    THEN [t EXCEPT !.buckets = Erase(t.buckets, i)]
    ELSE [t EXCEPT !.buckets[i] = b]

removet_hpp(t, v) ==
    LET i == FindItem(t.buckets, v)
    IN  IF i = 0 THEN [t |-> t, ret |-> -1, deleted |-> <<>>]
        ELSE LET r == index_bucket_remove_hpp(t.buckets[i], v)
             IN  [t       |-> DeleteIfEmpty_hpp(t, i, r.b),
                  ret     |-> r.ret,
                  deleted |-> IF UIsZero(r.b.filled) THEN <<r.b>> ELSE <<>>]

\* Position of the first bucket whose slot index % S is not T(), 0 for end().
FindSlot(bs, index) ==
    IF \E i \in 1..Len(bs) : bs[i].items[(index % S) + 1] # EmptyT
    THEN CHOOSE i \in 1..Len(bs) :
            bs[i].items[(index % S) + 1] # EmptyT
            /\ \A j \in 1..(i - 1) : bs[j].items[(index % S) + 1] = EmptyT
    ELSE 0

removei_hpp(t, index) ==
    LET i == FindSlot(t.buckets, index)
    IN  IF i = 0 THEN [t |-> t, ret |-> EmptyT, deleted |-> <<>>]
        ELSE LET it == t.buckets[i].items[(index % S) + 1]
                 r  == index_bucket_remove_hpp(t.buckets[i], it)
             IN  [t       |-> DeleteIfEmpty_hpp(t, i, r.b),
                  ret     |-> IF UIsZero(r.b.filled) THEN it ELSE EmptyT,
                  deleted |-> IF UIsZero(r.b.filled) THEN <<r.b>> ELSE <<>>]

gett_hpp(t, v) ==
    LET i == FindItem(t.buckets, v)
    IN  IF i = 0 THEN -1 ELSE item(t.buckets[i], v)

----------------------------------------------------------------------------
\* The table as a state machine: one action per mutating operation.  gett,
\* geti and count change nothing; they are the operators above.

Ids == -1..(MaxPages * S)
IdsHpp == 0..(MaxPages * S)

\* hist records how the calls made so far relate to two call patterns:
\*   "ins", k : k inserts and no removal call since construction;
\*   "rem", k : S inserts, then k removals that each returned a stored value;
\*   "fin", 0 : S inserts, S such removals, then one insert;
\*   "off", 0 : anything else.
HistInsert(h) ==
    IF h.phase = "ins" THEN [phase |-> "ins", k |-> h.k + 1]
    ELSE IF h.phase = "rem" /\ h.k = S THEN [phase |-> "fin", k |-> 0]
    ELSE [phase |-> "off", k |-> 0]

HistRemove(h, removedStored) ==
    IF removedStored /\ h.phase = "ins" /\ h.k = S THEN [phase |-> "rem", k |-> 1]
    ELSE IF removedStored /\ h.phase = "rem" /\ h.k < S THEN [phase |-> "rem", k |-> h.k + 1]
    ELSE [phase |-> "off", k |-> 0]

SetTable(t) ==
    /\ buckets' = t.buckets
    /\ empty' = t.empty
    /\ bucket_hiindex' = t.bucket_hiindex

WithinBounds(t) ==
    /\ Len(t.buckets) <= MaxPages
    /\ Len(t.buckets) * S <= MaxSlots
    /\ \A i \in 1..Len(t.buckets) : t.buckets[i].filled >= -MaxWrap

Instantiations ==
    /\ S \in 1..MaxS
    /\ cache \in 0..MaxCache
    /\ cache <= MaxPages
    /\ cache * S <= MaxSlots

Init ==
    /\ Instantiations
    /\ buckets = index_table(cache).buckets
    /\ empty = index_table(cache).empty
    /\ bucket_hiindex = index_table(cache).bucket_hiindex
    /\ hist = [phase |-> "ins", k |-> 0]

Insert ==
    \E v \in Values :
        LET r == insert(Tbl, v)
        IN  /\ WithinBounds(r.t)
            /\ SetTable(r.t)
            /\ hist' = HistInsert(hist)
            /\ UNCHANGED <<S, cache>>

RemoveT ==
    \E v \in AnyValues :
        LET r == removet(Tbl, v)
        IN  /\ WithinBounds(r.t)
            /\ SetTable(r.t)
            /\ hist' = HistRemove(hist, v # EmptyT /\ r.ret >= 0)
            /\ UNCHANGED <<S, cache>>

RemoveI ==
    \E id \in Ids :
        LET r == removei(Tbl, id)
        IN  /\ WithinBounds(r.t)
            /\ SetTable(r.t)
            /\ hist' = HistRemove(hist, r.ret # EmptyT)
            /\ UNCHANGED <<S, cache>>

Next == Insert \/ RemoveT \/ RemoveI

Spec == Init /\ [][Next]_vars

InitHpp ==
    /\ Instantiations
    /\ buckets = index_table_hpp(cache).buckets
    /\ empty = index_table_hpp(cache).empty
    /\ bucket_hiindex = 0
    /\ hist = [phase |-> "ins", k |-> 0]

InsertHpp ==
    \E v \in Values :
        LET r == insert_hpp(Tbl, v)
        IN  /\ WithinBounds(r.t)
            /\ SetTable(r.t)
            /\ hist' = HistInsert(hist)
            /\ UNCHANGED <<S, cache>>

RemoveTHpp ==
    \E v \in AnyValues :
        LET r == removet_hpp(Tbl, v)
        IN  /\ WithinBounds(r.t)
            /\ SetTable(r.t)
            /\ hist' = HistRemove(hist, v # EmptyT /\ r.ret >= 0)
            /\ UNCHANGED <<S, cache>>

RemoveIHpp ==
    \E id \in IdsHpp :
        LET r == removei_hpp(Tbl, id)
        IN  /\ WithinBounds(r.t)
            /\ SetTable(r.t)
            /\ hist' = HistRemove(hist, r.deleted # <<>> \/ r.t # Tbl)
            /\ UNCHANGED <<S, cache>>

NextHpp == InsertHpp \/ RemoveTHpp \/ RemoveIHpp

SpecHpp == InitHpp /\ [][NextHpp]_vars

TypeOK ==
    /\ S \in 1..MaxS
    /\ cache \in 0..MaxCache
    /\ Len(buckets) <= MaxPages
    /\ \A i \in 1..Len(buckets) :
          /\ Len(buckets[i].items) = S
          /\ \A o \in 1..S : buckets[i].items[o] \in AnyValues

----------------------------------------------------------------------------
\* Properties of the bucket_hiindex variant (src/unnamed/part_000).

Stored(t, v) == \E i \in 1..Len(t.buckets) : \E o \in 1..S : t.buckets[i].items[o] = v

\* C1: in every reachable state a further insert(v), v # T(), returns a
\* non-negative id with geti(id) = v (insert never fails).
C1_RoundTrip ==
    \A v \in Values :
        LET r == insert(Tbl, v)
        IN  r.ret >= 0 /\ geti(r.t, r.ret) = v

\* C2: no two live buckets share a bucket_index, hence no two stored values
\* share a global identifier bucket_index * S + offset.
C2_UniqueBucketIndex ==
    \A i, j \in 1..Len(buckets) :
        i # j => buckets[i].bucket_index # buckets[j].bucket_index

\* A freed bucket index has been reused (vector order differs from index
\* order) while another index is still on the stack.
C2_Witness ==
    /\ Len(buckets) >= 2
    /\ empty # <<>>
    /\ \E i, j \in 1..Len(buckets) :
          i < j /\ buckets[i].bucket_index > buckets[j].bucket_index

\* C3: for v # T() not stored in the table, removei(insert(v)) returns v and
\* afterwards gett(v) = -1.
C3_RemovalSymmetry ==
    \A v \in Values :
        ~Stored(Tbl, v) =>
            LET a == insert(Tbl, v)
                b == removei(a.t, a.ret)
            IN  b.ret = v /\ gett(b.t, v) = -1

Max(a, b) == IF a >= b THEN a ELSE b
CeilDiv(n, d) == (n + d - 1) \div d
AllEmpty(b) == \A o \in 1..S : b.items[o] = EmptyT
LastBucket(t) == t.buckets[Len(t.buckets)]

\* C6: after n inserts and no removal on a table constructed with cache = c,
\* count() = n and the number of live buckets is max(c, ceil(n / S)).
C6_Compactness ==
    hist.phase = "ins" =>
        /\ count(Tbl) = hist.k
        /\ Len(buckets) = Max(cache, CeilDiv(hist.k, S))

\* Inserts alone have grown the table past its pre-allocated buckets.
C6_Witness ==
    /\ hist.phase = "ins"
    /\ cache >= 1
    /\ S >= 2
    /\ Len(buckets) > cache
    /\ hist.k > cache * S

\* C7: with no removals, the k-th insert (k = 0, 1, ...) returns identifier k
\* and the value lies in the bucket with bucket_index k / S at offset k % S.
C7_IndexArithmetic ==
    hist.phase = "ins" =>
        \A v \in Values :
            LET r == insert(Tbl, v)
                k == hist.k
            IN  /\ r.ret = k
                /\ \E i \in 1..Len(r.t.buckets) :
                      /\ r.t.buckets[i].bucket_index = k \div S
                      /\ r.t.buckets[i].items[(k % S) + 1] = v
                      /\ \A j \in 1..Len(r.t.buckets) :
                            r.t.buckets[j].bucket_index = k \div S => j = i

\* Inserts have reached a second bucket, created on demand, at offset >= 1.
C7_Witness ==
    /\ hist.phase = "ins"
    /\ cache = 0
    /\ S >= 2
    /\ hist.k >= S + 2
    /\ \E i \in 1..Len(buckets) :
          buckets[i].bucket_index = 1 /\ buckets[i].items[2] # EmptyT

\* One step of the table seen from outside: a bucket whose filled reached 0
\* is gone from buckets, a bucket leaves buckets only with its index pushed,
\* and the pushed index is the one the next bucket() hands out.
DrainStep ==
    /\ \A i \in 1..Len(buckets') :
          buckets'[i].filled = 0 => \E j \in 1..Len(buckets) : buckets[j] = buckets'[i]
    /\ Len(buckets') < Len(buckets) => Len(empty') = Len(empty) + 1
    /\ Len(empty') = Len(empty) + 1 =>
          LET id == empty'[Len(empty')]
          IN  /\ \E j \in 1..Len(buckets) : buckets[j].bucket_index = id
              /\ \A i \in 1..Len(buckets') : buckets'[i].bucket_index # id
              /\ LastBucket(bucket(Tbl')).bucket_index = id

\* The insert that follows S inserts and S removals of stored values.
ReuseStep == hist.phase = "rem" /\ hist.k = S /\ hist'.phase = "fin"

ReusesFreed ==
    /\ empty # <<>>
    /\ \E i \in 1..Len(buckets') :
          /\ buckets'[i].filled = 1
          /\ buckets'[i].bucket_index = empty[Len(empty)]

\* C8 as stated: every draining removal erases the bucket and leaves its index
\* on top of `empty` for the next bucket(); inserting S values, removing all S
\* and inserting one more yields a bucket with the freed index and count() = 1.
C8_ReclaimAndReuse ==
    [][ /\ DrainStep
        /\ ReuseStep => (count(Tbl') = 1 /\ ReusesFreed) ]_vars

\* C8 amended: the same, where the final insert receives the freed index when
\* the table was constructed with cache <= 1 (no other live bucket has room).
C8_ReclaimAndReuseAmended ==
    [][ /\ DrainStep
        /\ ReuseStep => (count(Tbl') = 1 /\ (cache <= 1 => ReusesFreed)) ]_vars

\* S inserts, S removals and one insert have run; the freed index was reused.
C8_Witness ==
    /\ hist.phase = "fin"
    /\ cache <= 1
    /\ S >= 2
    /\ empty = <<>>
    /\ Len(buckets) = 1
    /\ buckets[1].filled = 1

\* C10: whenever removet or removei erases and deletes a bucket, all S of its
\* slots equal T() at that moment.
C10_DeletedBucketsAreEmpty ==
    /\ \A v \in AnyValues :
          LET r == removet(Tbl, v)
          IN  r.deleted # <<>> => AllEmpty(r.deleted[1])
    /\ \A id \in Ids :
          LET r == removei(Tbl, id)
          IN  r.deleted # <<>> => AllEmpty(r.deleted[1])

\* Number of slots of bucket b that differ from T().
NonEmpty(b) == Cardinality({o \in 1..S : b.items[o] # EmptyT})

RECURSIVE SumNonEmpty(_)
SumNonEmpty(bs) == IF bs = <<>> THEN 0 ELSE NonEmpty(bs[1]) + SumNonEmpty(Tail(bs))

\* C11: every live bucket has 0 <= filled <= S and filled equal to the number
\* of its slots that differ from T(), so count() is the number of stored values.
C11_FillCount ==
    /\ \A i \in 1..Len(buckets) :
          /\ buckets[i].filled >= 0
          /\ buckets[i].filled <= S
          /\ buckets[i].filled = NonEmpty(buckets[i])
    /\ count(Tbl) = SumNonEmpty(buckets)

\* Bucket indices of the live buckets and of the stack `empty`.
LiveIds == {buckets[i].bucket_index : i \in 1..Len(buckets)}
FreeIds == {empty[i] : i \in 1..Len(empty)}

\* C12: live bucket indices and the contents of `empty` are disjoint, no index
\* occurs twice in `empty`, and once a bucket has been created their union is
\* exactly 0..bucket_hiindex.
C12_FreeIdentifiers ==
    /\ LiveIds \cap FreeIds = {}
    /\ \A i, j \in 1..Len(empty) : i # j => empty[i] # empty[j]
    /\ (LiveIds \cup FreeIds # {}) => (LiveIds \cup FreeIds = 0..bucket_hiindex)

\* Buckets have been created past index 0 and some index is free while
\* another bucket is live.
C12_Witness ==
    /\ bucket_hiindex >= 1
    /\ Len(empty) >= 2
    /\ Len(buckets) >= 1
    /\ \E i \in 1..Len(buckets) : buckets[i].filled >= 1

\* C13: when two distinct slots id1, id2 hold the same v # T() (two inserts of
\* v), removei(id2) vacates exactly slot id2 and leaves slot id1 unchanged.
C13_DuplicatesSeparatelyRemovable ==
    \A id1, id2 \in 0..(MaxPages * S) :
        (id1 # id2 /\ geti(Tbl, id1) # EmptyT /\ geti(Tbl, id1) = geti(Tbl, id2)) =>
            LET r == removei(Tbl, id2)
            IN  /\ r.ret = geti(Tbl, id2)
                /\ geti(r.t, id1) = geti(Tbl, id1)
                /\ geti(r.t, id2) = EmptyT

\* C15: for a value v that no live bucket holds, in particular for any value
\* on a table with count() = 0, gett(v) and removet(v) return -1 and removet
\* leaves the table unchanged; gett(v) >= 0 when a live bucket holds v.
NotFoundByValue(v) ==
    /\ gett(Tbl, v) = -1
    /\ removet(Tbl, v).ret = -1
    /\ removet(Tbl, v).t = Tbl
    /\ removet(Tbl, v).deleted = <<>>

C15_NotFoundByValue ==
    /\ \A v \in AnyValues :
          IF Stored(Tbl, v) THEN gett(Tbl, v) >= 0 ELSE NotFoundByValue(v)
    /\ count(Tbl) = 0 => \A v \in Values : NotFoundByValue(v)

\* C16: for id >= 0 with no live bucket of bucket_index id / S, geti(id) and
\* removei(id) return T() and removei leaves the table unchanged.
C16_NotFoundByIdentifier ==
    \A id \in 0..(MaxPages * S) :
        (\A i \in 1..Len(buckets) : buckets[i].bucket_index # id \div S) =>
            /\ geti(Tbl, id) = EmptyT
            /\ removei(Tbl, id).ret = EmptyT
            /\ removei(Tbl, id).t = Tbl
            /\ removei(Tbl, id).deleted = <<>>

\* Bucket 0 was deleted and bucket 1 is live with a value: the identifiers of
\* bucket 0 have no bucket although identifiers above them do.
C16_Witness ==
    /\ S >= 2
    /\ 0 \notin LiveIds
    /\ \E i \in 1..Len(buckets) :
          buckets[i].bucket_index = 1 /\ buckets[i].items[1] # EmptyT

\* Every live bucket's filled equals its number of non-empty slots.
FilledExact == \A i \in 1..Len(buckets) : buckets[i].filled = NonEmpty(buckets[i])

\* Positions of the live buckets with room, and the lowest empty offset
\* (1-based) of a bucket.
WithRoom == {i \in 1..Len(buckets) : buckets[i].filled < S}
LowestEmpty(b) == CHOOSE o \in 1..S : b.items[o] = EmptyT /\ \A q \in 1..(o - 1) : b.items[q] # EmptyT

\* C17: where filled is exact, insert(v) writes v into the lowest empty offset
\* of the first bucket (vector order) with filled < S, appends a new bucket
\* only when no live bucket has filled < S, and changes no other slot.
C17_FirstFit ==
    FilledExact =>
        \A v \in Values :
            LET r == insert(Tbl, v)
            IN  IF WithRoom # {}
                THEN LET i == CHOOSE x \in WithRoom : \A y \in WithRoom : x <= y
                         o == LowestEmpty(buckets[i])
                     IN  /\ Len(r.t.buckets) = Len(buckets)
                         /\ \A j \in 1..Len(buckets) :
                               j # i => r.t.buckets[j] = buckets[j]
                         /\ r.t.buckets[i].items = [buckets[i].items EXCEPT ![o] = v]
                         /\ r.t.buckets[i].bucket_index = buckets[i].bucket_index
                ELSE /\ Len(r.t.buckets) = Len(buckets) + 1
                     /\ \A j \in 1..Len(buckets) : r.t.buckets[j] = buckets[j]
                     /\ LastBucket(r.t).items = [o \in 1..S |-> IF o = 1 THEN v ELSE EmptyT]

\* filled is exact, the first bucket is full, a later bucket has room and its
\* lowest empty offset lies between occupied slots.
C17_Witness ==
    /\ FilledExact
    /\ S = 3
    /\ Len(buckets) = 2
    /\ buckets[1].filled = S
    /\ buckets[2].items[1] # EmptyT
    /\ buckets[2].items[2] = EmptyT
    /\ buckets[2].items[3] # EmptyT

\* C18: a bucket created while `empty` is non-empty receives the most recently
\* freed index (freed indices are pushed on top, the top is popped: after a
\* then b were freed, two creations receive b then a), and bucket_hiindex
\* advances only in a bucket creation made while `empty` is empty.
C18_LifoReuse ==
    [][ /\ (Len(buckets') > Len(buckets) /\ empty # <<>>) =>
              /\ LastBucket(Tbl').bucket_index = empty[Len(empty)]
              /\ empty' = SubSeq(empty, 1, Len(empty) - 1)
        /\ Len(empty') > Len(empty) =>
              /\ SubSeq(empty', 1, Len(empty)) = empty
              /\ Len(empty') = Len(empty) + 1
        /\ Len(empty) >= 2 =>
              LET t1 == bucket(Tbl)
                  t2 == bucket(t1)
              IN  /\ LastBucket(t1).bucket_index = empty[Len(empty)]
                  /\ LastBucket(t2).bucket_index = empty[Len(empty) - 1]
        /\ bucket_hiindex' # bucket_hiindex =>
              /\ empty = <<>>
              /\ Len(buckets') = Len(buckets) + 1
              /\ bucket_hiindex' = bucket_hiindex + 1 ]_vars

\* The last bucket was created by reuse (its index is below bucket_hiindex)
\* while an older freed index is still on the stack.
C18_Witness ==
    /\ Len(empty) >= 1
    /\ Len(buckets) >= 1
    /\ bucket_hiindex >= 2
    /\ LastBucket(Tbl).bucket_index < bucket_hiindex
    /\ LastBucket(Tbl).bucket_index > empty[1]
    /\ LastBucket(Tbl).filled >= 1

\* C19: removei(id) on an id whose bucket exists but whose slot id % S equals
\* T() returns T() and changes nothing: no filled, no bucket, not `empty`,
\* not count().
C19_RemoveiEmptySlotNoOp ==
    \A id \in 0..(MaxPages * S) :
        ((\E i \in 1..Len(buckets) : buckets[i].bucket_index = id \div S)
            /\ geti(Tbl, id) = EmptyT) =>
            LET r == removei(Tbl, id)
            IN  /\ r.ret = EmptyT
                /\ r.t = Tbl
                /\ r.deleted = <<>>
                /\ count(r.t) = count(Tbl)

----------------------------------------------------------------------------
\* Properties of the src/index_table.hpp variant (checked under SpecHpp).

\* C4: removei(id) on a slot (bucket id / S, offset id % S) holding v # T()
\* removes that value and returns v, whether or not the bucket becomes empty.
C4_RemoveiReturnsValue ==
    \A id \in IdsHpp :
        LET v == geti(Tbl, id)
        IN  v # EmptyT =>
                LET r == removei_hpp(Tbl, id)
                IN  r.ret = v /\ count(r.t) = count(Tbl) - 1

RECURSIVE MaxIndex(_)
MaxIndex(bs) ==
    IF bs = <<>> THEN -1 ELSE Max(bs[1].bucket_index, MaxIndex(Tail(bs)))

\* C5: construction leaves exactly `cache` empty buckets with bucket_index
\* 0, 1, ..., cache - 1, and a later bucket creation with no free index gets
\* one past the highest index assigned so far (stated for the histories
\* without removals, where every index assigned so far is still live).
C5_Construction ==
    /\ (hist.phase = "ins" /\ hist.k = 0) =>
          /\ Len(buckets) = cache
          /\ \A i \in 1..Len(buckets) :
                buckets[i].bucket_index = i - 1 /\ buckets[i].filled = 0
                /\ AllEmpty(buckets[i])
    /\ (hist.phase = "ins" /\ Len(buckets) > 0 /\ empty = <<>>) =>
          LastBucket(bucket_hpp(Tbl)).bucket_index = MaxIndex(buckets) + 1

\* C9: a removet that drains a bucket removes it from buckets and pushes its
\* bucket_index on `empty`, so that the next bucket created receives it.
C9_DrainedIndexReusable ==
    \A v \in AnyValues :
        LET r == removet_hpp(Tbl, v)
        IN  r.deleted # <<>> =>
                /\ Len(r.t.buckets) = Len(buckets) - 1
                /\ r.t.empty # <<>>
                /\ r.t.empty[Len(r.t.empty)] = r.deleted[1].bucket_index
                /\ LastBucket(bucket_hpp(r.t)).bucket_index = r.deleted[1].bucket_index

\* C14: for v # T() stored exactly once, gett(v) is the global identifier
\* bucket_index * S + offset, the one insert(v) returned; -1 only when absent.
C14_IndexOfRoundTrip ==
    /\ \A v \in Values :
          /\ Stored(Tbl, v) => gett_hpp(Tbl, v) # -1
          /\ ~Stored(Tbl, v) =>
                /\ gett_hpp(Tbl, v) = -1
                /\ LET a == insert_hpp(Tbl, v)
                   IN  gett_hpp(a.t, v) = a.ret
    /\ \A i \in 1..Len(buckets) : \A o \in 1..S :
          LET v == buckets[i].items[o]
          IN  (v # EmptyT
               /\ Cardinality({<<j, q>> \in (1..Len(buckets)) \X (1..S) :
                                  buckets[j].items[q] = v}) = 1) =>
                  gett_hpp(Tbl, v) = (buckets[i].bucket_index * S) + (o - 1)

====
